---- MODULE Spec2Model ----
(***************************************************************************)
(* Model of deblur.cpp: an interactive Wiener deblurring tool.  Two global *)
(* sliders (radius_slider, snr_slider) drive a pipeline that builds a disk *)
(* PSF, swaps its quadrants, transforms it, forms the Wiener transfer      *)
(* function H / (H^2 + 1/snr), applies it to the image in the frequency    *)
(* domain and displays the result.                                         *)
(*                                                                         *)
(* Sample values are exact rationals <<n, d>> (d > 0, lowest terms) with   *)
(* the IEEE specials +Inf = <<1,0>>, -Inf = <<-1,0>> and NaN = <<0,0>>:    *)
(* float rounding is not modelled, division by zero and infinities are.    *)
(* A Mat is [cols, rows, at] with at a function on <<x, y>> cells.         *)
(***************************************************************************)
EXTENDS Integers, Sequences, FiniteSets, TLC

VARIABLES
    imgOrig,        \* main: the image read at start-up (integer samples)
    radius_slider,  \* global, line 20
    snr_slider,     \* global, line 21
    pc,             \* position of main / of getWienerFilter's stages
    psf,            \* getWienerFilter: psf
    freqPSF,        \* getWienerFilter: freqPSF
    cI,             \* getWienerFilter: cI (complex)
    degrad,         \* getWienerFilter: degrad
    imgFiltered,    \* callback: the transfer function getWienerFilter returned
    complexI,       \* filter: the image's spectrum
    imgMod,         \* callback: the grid filter returned
    window,         \* displayFiltered: the 8-bit grid shown and saved
    lastCallback,   \* which callback ran last
    firstCall       \* history: the first getWienerFilter invocation

vars == <<imgOrig, radius_slider, snr_slider, pc, psf, freqPSF, cI, degrad,
          imgFiltered, complexI, imgMod, window, lastCallback, firstCall>>

(***************************************************************************)
(* Bounds of the model and constants of the program.                       *)
(***************************************************************************)
MaxDim == 6
MaxRadius == 2
MaxSnr == 2
DefaultRadius == 64
DefaultSnr == 1200
RadiusTrackbarMax == 130
SnrTrackbarMax == 2000
FillValue == 255

(***************************************************************************)
(* Arithmetic on sample values.                                            *)
(***************************************************************************)
AbsI(n) == IF n < 0 THEN -n ELSE n

SgnI(n) == IF n < 0 THEN -1 ELSE IF n = 0 THEN 0 ELSE 1

RECURSIVE Gcd(_, _)
Gcd(a, b) == IF b = 0 THEN a ELSE Gcd(b, a % b)

Norm(n, d) ==
    IF d = 0 THEN <<SgnI(n), 0>>
    ELSE LET g == Gcd(AbsI(n), AbsI(d))
             s == SgnI(d)
         IN  <<s * (n \div g), s * (d \div g)>>

Rat(n) == <<n, 1>>
Zero == <<0, 1>>
One == <<1, 1>>
NaN == <<0, 0>>
PosInf == <<1, 0>>

IsNaN(a) == a = NaN
IsInf(a) == a[2] = 0 /\ a[1] # 0
IsFinite(a) == a[2] # 0

FNeg(a) == <<-a[1], a[2]>>

FAbs(a) == <<AbsI(a[1]), a[2]>>

FAdd(a, b) ==
    IF IsNaN(a) \/ IsNaN(b) THEN NaN
    ELSE IF IsInf(a) THEN (IF IsInf(b) /\ b # a THEN NaN ELSE a)
    ELSE IF IsInf(b) THEN b
    ELSE LET g == Gcd(a[2], b[2])
         IN  Norm(a[1] * (b[2] \div g) + b[1] * (a[2] \div g), (a[2] \div g) * b[2])

FSub(a, b) == FAdd(a, FNeg(b))

FMul(a, b) ==
    IF IsNaN(a) \/ IsNaN(b) THEN NaN
    ELSE IF IsInf(a) \/ IsInf(b)
         THEN <<SgnI(a[1]) * SgnI(b[1]), 0>>
    ELSE LET g1 == Gcd(AbsI(a[1]), b[2])
             g2 == Gcd(AbsI(b[1]), a[2])
         IN  Norm((a[1] \div g1) * (b[1] \div g2), (a[2] \div g2) * (b[2] \div g1))

FRecip(b) ==
    IF IsNaN(b) THEN NaN
    ELSE IF IsInf(b) THEN Zero
    ELSE IF b[1] = 0 THEN PosInf
    ELSE Norm(b[2], b[1])

FDiv(a, b) == FMul(a, FRecip(b))

FLe(a, b) == a[1] * b[2] <= b[1] * a[2]

(***************************************************************************)
(* Mats.                                                                   *)
(***************************************************************************)
Cells(w, h) == (0 .. w - 1) \X (0 .. h - 1)

Mat(w, h, f) == [cols |-> w, rows |-> h, at |-> f]

EmptyMat == Mat(0, 0, [p \in {} |-> Zero])

SameDims(a, b) == a.cols = b.cols /\ a.rows = b.rows

MatFill(w, h, v) == Mat(w, h, [p \in Cells(w, h) |-> v])

\* Mat_<float>(m): the integer samples as floats.
ToFloat(m) == Mat(m.cols, m.rows, [p \in DOMAIN m.at |-> Rat(m.at[p])])

CellAt(m, i) == <<(i - 1) % m.cols, (i - 1) \div m.cols>>

\* The sum of cells lo .. hi in row-major order.
RECURSIVE SumRange(_, _, _)
SumRange(m, lo, hi) ==
    IF lo > hi THEN Zero
    ELSE IF lo = hi THEN m.at[CellAt(m, lo)]
    ELSE LET mid == (lo + hi) \div 2
         IN  FAdd(SumRange(m, lo, mid), SumRange(m, mid + 1, hi))

sum(m) == SumRange(m, 1, m.cols * m.rows)

Rect(x, y, w, h) == [x |-> x, y |-> y, width |-> w, height |-> h]

InRect(p, r) ==
    /\ r.x <= p[1] /\ p[1] < r.x + r.width
    /\ r.y <= p[2] /\ p[2] < r.y + r.height

Roi(m, r) ==
    Mat(r.width, r.height,
        [p \in Cells(r.width, r.height) |-> m.at[<<r.x + p[1], r.y + p[2]>>]])

CopyTo(src, m, r) ==
    IF src.cols = 0 \/ src.rows = 0 THEN m
    ELSE Mat(m.cols, m.rows,
             [p \in DOMAIN m.at |->
                 IF InRect(p, r) THEN src.at[<<p[1] - r.x, p[2] - r.y>>]
                 ELSE m.at[p]])

(***************************************************************************)
(* getWienerFilter, lines 108-113: the PSF.                                *)
(***************************************************************************)
\* Mutant: a positive thickness draws the outline only.
circle_Outline(img, center, radius, color) ==
    Mat(img.cols, img.rows,
        [p \in DOMAIN img.at |->
            LET d2 == (p[1] - center[1]) * (p[1] - center[1])
                      + (p[2] - center[2]) * (p[2] - center[2])
            IN  IF d2 <= radius * radius /\ d2 > (radius - 1) * (radius - 1)
                THEN color ELSE img.at[p]])

\* Mutant: the boundary is excluded, so radius 0 paints nothing.
circle_Strict(img, center, radius, color) ==
    Mat(img.cols, img.rows,
        [p \in DOMAIN img.at |->
            IF (p[1] - center[1]) * (p[1] - center[1])
               + (p[2] - center[2]) * (p[2] - center[2]) < radius * radius
            THEN color ELSE img.at[p]])

\* cv::circle with thickness -1: every cell within the radius of the center.
circle(img, center, radius, color) ==
    Mat(img.cols, img.rows,
        [p \in DOMAIN img.at |->
            IF (p[1] - center[1]) * (p[1] - center[1])
               + (p[2] - center[2]) * (p[2] - center[2]) <= radius * radius
            THEN color ELSE img.at[p]])

\* Mutant: the grid is allocated with width and height exchanged.
DrawPSF_Transposed(bbox, radius) ==
    LET point == <<bbox[1] \div 2, bbox[2] \div 2>>
    IN  circle(MatFill(bbox[2], bbox[1], Zero), point, radius, Rat(FillValue))

DrawPSF(bbox, radius) ==
    LET radW == bbox[1]
        radH == bbox[2]
        point == <<radW \div 2, radH \div 2>>
    IN  circle(MatFill(bbox[1], bbox[2], Zero), point, radius, Rat(FillValue))

NormalizePSF(m) ==
    LET s == sum(m) IN Mat(m.cols, m.rows, [p \in DOMAIN m.at |-> FDiv(m.at[p], s)])

(***************************************************************************)
(* getWienerFilter, lines 116-131: the quadrant swap.                      *)
(***************************************************************************)
\* Mutant: the second copy reads the already overwritten quadrant.
SwapRects_NoTmp(m, ra, rb) ==
    LET m1 == CopyTo(Roi(m, rb), m, ra)
    IN  CopyTo(Roi(m1, ra), m1, rb)

SwapRects(m, ra, rb) ==
    LET tmp == Roi(m, ra)
        m1 == CopyTo(Roi(m, rb), m, ra)
    IN  CopyTo(tmp, m1, rb)

\* Mutant: the quadrants are exchanged side by side instead of diagonally.
CenterQuadrants_SideBySide(m) ==
    LET cx == m.cols \div 2
        cy == m.rows \div 2
    IN  SwapRects(SwapRects(m, Rect(0, 0, cx, cy), Rect(cx, 0, cx, cy)),
                  Rect(0, cy, cx, cy), Rect(cx, cy, cx, cy))

CenterQuadrants(m) ==
    LET cx == m.cols \div 2
        cy == m.rows \div 2
        q0 == Rect(0, 0, cx, cy)
        q1 == Rect(cx, 0, cx, cy)
        q2 == Rect(0, cy, cx, cy)
        q3 == Rect(cx, cy, cx, cy)
    IN  SwapRects(SwapRects(m, q0, q3), q1, q2)

(***************************************************************************)
(* getWienerFilter, lines 133-134: the complex grid handed to cv::dft.     *)
(***************************************************************************)
Cx(re, im) == [re |-> re, im |-> im]

merge(re, im) ==
    Mat(re.cols, re.rows, [p \in DOMAIN re.at |-> Cx(re.at[p], im.at[p])])

MergePSF(m) == merge(m, MatFill(m.cols, m.rows, Zero))

(***************************************************************************)
(* cv::dft / cv::idft on a complex Mat.  The twiddle factors are exact     *)
(* when cols and rows divide 4: they are powers of -i, counted in quarter  *)
(* turns.  ImageSizes below keeps to such sizes.                           *)
(***************************************************************************)
CAdd(a, b) == Cx(FAdd(a.re, b.re), FAdd(a.im, b.im))

\* a * (-i)^q
Rot(a, q) ==
    CASE q = 0 -> a
      [] q = 1 -> Cx(a.im, FNeg(a.re))
      [] q = 2 -> Cx(FNeg(a.re), FNeg(a.im))
      [] q = 3 -> Cx(FNeg(a.im), a.re)

Quarter(p, k, m) ==
    (p[1] * k[1] * (4 \div m.cols) + p[2] * k[2] * (4 \div m.rows)) % 4

\* The terms of cells lo .. hi of output cell k.
RECURSIVE DftSum(_, _, _, _, _)
DftSum(m, k, inverse, lo, hi) ==
    IF lo > hi THEN Cx(Zero, Zero)
    ELSE IF lo = hi
         THEN LET p == CellAt(m, lo)
                  q == Quarter(p, k, m)
              IN  Rot(m.at[p], IF inverse THEN (4 - q) % 4 ELSE q)
    ELSE LET mid == (lo + hi) \div 2
         IN  CAdd(DftSum(m, k, inverse, lo, mid), DftSum(m, k, inverse, mid + 1, hi))

dft(m, flags) ==
    LET n == m.cols * m.rows
        inverse == "DFT_INVERSE" \in flags
        scale == IF "DFT_SCALE" \in flags THEN <<1, n>> ELSE One
    IN  Mat(m.cols, m.rows,
            [k \in DOMAIN m.at |->
                LET s == DftSum(m, k, inverse, 1, n)
                IN  IF "DFT_SCALE" \in flags
                    THEN Cx(FMul(s.re, scale), FMul(s.im, scale))
                    ELSE s])

idft(m) == dft(m, {"DFT_INVERSE"})

RealPlane(m) == Mat(m.cols, m.rows, [p \in DOMAIN m.at |-> m.at[p].re])

(***************************************************************************)
(* getWienerFilter, lines 135-142: the PSF's spectrum and the transfer     *)
(* function.  The noise term reads the global snr_slider.                  *)
(***************************************************************************)
PsfSpectrum(c) == dft(c, {})

\* Mutant: the noise term is left out of the denominator.
NoiseTerm_Dropped == Zero

NoiseTerm == FRecip(Rat(snr_slider))

\* Mutant: degrad is a buffer kept across calls and added to.
Degrad_Accumulating(planes0) ==
    LET fresh == Mat(planes0.cols, planes0.rows,
                     [p \in DOMAIN planes0.at |->
                         FAdd(FMul(FAbs(planes0.at[p]), FAbs(planes0.at[p])),
                              FRecip(Rat(snr_slider)))])
    IN  IF SameDims(degrad, fresh)
        THEN Mat(fresh.cols, fresh.rows,
                 [p \in DOMAIN fresh.at |-> FAdd(degrad.at[p], fresh.at[p])])
        ELSE fresh

Degrad(planes0) ==
    Mat(planes0.cols, planes0.rows,
        [p \in DOMAIN planes0.at |->
            FAdd(FMul(FAbs(planes0.at[p]), FAbs(planes0.at[p])), NoiseTerm)])

divide(a, b) == Mat(a.cols, a.rows, [p \in DOMAIN a.at |-> FDiv(a.at[p], b.at[p])])

\* The locals of one invocation; imgOut is what the caller receives.
getWienerFilter(bbox) ==
    LET psf0 == NormalizePSF(DrawPSF(bbox, radius_slider))
        freq == CenterQuadrants(psf0)
        c0 == MergePSF(freq)
        spec == PsfSpectrum(c0)
        planes0 == RealPlane(spec)
        deg == Degrad(planes0)
    IN  [psf |-> psf0, freqPSF |-> freq, cI |-> spec, degrad |-> deg,
         imgOut |-> divide(planes0, deg)]

(***************************************************************************)
(* filter, lines 82-98.                                                    *)
(***************************************************************************)
\* Mutant: the image's forward transform without DFT_SCALE.
ImageSpectrum_Unscaled(inputImg) ==
    dft(merge(ToFloat(inputImg), MatFill(inputImg.cols, inputImg.rows, Zero)), {})

ImageSpectrum(inputImg) ==
    dft(merge(ToFloat(inputImg), MatFill(inputImg.cols, inputImg.rows, Zero)),
        {"DFT_SCALE"})

CMul(a, b) ==
    Cx(FSub(FMul(a.re, b.re), FMul(a.im, b.im)),
       FAdd(FMul(a.re, b.im), FMul(a.im, b.re)))

\* mulSpectrums asserts equal sizes; the cv::Exception is not caught.
filter(inputImg, H) ==
    LET cxI == ImageSpectrum(inputImg)
        cxH == merge(H, MatFill(H.cols, H.rows, Zero))
    IN  IF SameDims(cxI, cxH)
        THEN [ok |-> TRUE, complexI |-> cxI,
              outputImg |->
                  RealPlane(idft(Mat(cxI.cols, cxI.rows,
                      [p \in DOMAIN cxI.at |-> CMul(cxI.at[p], cxH.at[p])])))]
        ELSE [ok |-> FALSE, complexI |-> cxI, outputImg |-> EmptyMat]

(***************************************************************************)
(* displayFiltered, lines 148-154: convertTo(CV_8U) rounds to nearest,     *)
(* ties to even, and saturates to 0..255.  The 0.3 preview downscale and   *)
(* the JPEG encoding consume this grid and are not modelled.               *)
(***************************************************************************)
RoundHalfEven(v) ==
    LET f == v[1] \div v[2]
        r == 2 * (v[1] - f * v[2])
    IN  IF r < v[2] THEN f
        ELSE IF r > v[2] THEN f + 1
        ELSE IF f % 2 = 0 THEN f ELSE f + 1

SaturateU8(v) ==
    IF IsNaN(v) THEN 0
    ELSE IF IsInf(v) THEN (IF v[1] > 0 THEN 255 ELSE 0)
    ELSE LET r == RoundHalfEven(v)
         IN  IF r < 0 THEN 0 ELSE IF r > 255 THEN 255 ELSE r

displayFiltered(m) == Mat(m.cols, m.rows, [p \in DOMAIN m.at |-> SaturateU8(m.at[p])])

(***************************************************************************)
(* The program: main, the two trackbar callbacks, the event loop.          *)
(***************************************************************************)
ImageSizes == {<<2, 2>>, <<4, 2>>, <<2, 4>>, <<1, 2>>, <<4, 1>>}

Steps == {0, 31}

\* An 8-bit grayscale image: a ramp of the given step over the cells.
Ramp(sz, step) ==
    Mat(sz[1], sz[2], [p \in Cells(sz[1], sz[2]) |-> (7 + step * (p[1] + sz[1] * p[2])) % 256])

Images == {Ramp(sz, step) : sz \in ImageSizes, step \in Steps}

RadiusPositions == {p \in (0 .. MaxRadius) \cup {DefaultRadius} : p <= RadiusTrackbarMax}

SnrPositions == {p \in (0 .. MaxSnr) \cup {DefaultSnr} : p <= SnrTrackbarMax}

NoCall == [valid |-> FALSE, radius |-> 0, snr |-> 0, bbox |-> <<0, 0>>, out |-> EmptyMat]

ThisCall(radius, snr, bbox, out) ==
    [valid |-> TRUE, radius |-> radius, snr |-> snr, bbox |-> bbox, out |-> out]

Init ==
    /\ imgOrig \in Images
    /\ radius_slider = DefaultRadius
    /\ snr_slider = DefaultSnr
    /\ pc = "main39"
    /\ psf = EmptyMat
    /\ freqPSF = EmptyMat
    /\ cI = EmptyMat
    /\ degrad = EmptyMat
    /\ imgFiltered = EmptyMat
    /\ complexI = EmptyMat
    /\ imgMod = EmptyMat
    /\ window = EmptyMat
    /\ lastCallback = "none"
    /\ firstCall = NoCall

\* The statements after getWienerFilter returned gw (lines 58-59, 74-75).
FilterAndDisplay(name, next, bbox, gw) ==
    \E fl \in {filter(Roi(imgOrig, Rect(0, 0, bbox[1], bbox[2])), gw.imgOut)} :
        /\ psf' = gw.psf
        /\ freqPSF' = gw.freqPSF
        /\ cI' = gw.cI
        /\ degrad' = gw.degrad
        /\ imgFiltered' = gw.imgOut
        /\ complexI' = fl.complexI
        /\ imgMod' = fl.outputImg
        /\ lastCallback' = name
        /\ firstCall' = IF firstCall.valid THEN firstCall
                        ELSE ThisCall(radius_slider, snr_slider, bbox, gw.imgOut)
        /\ IF fl.ok
           THEN /\ window' = displayFiltered(fl.outputImg)
                /\ pc' = next
           ELSE /\ window' = window
                /\ pc' = "terminated"
        /\ UNCHANGED <<imgOrig, radius_slider, snr_slider>>

\* The body shared by both callbacks (lines 51-59 and 67-75): neither reads
\* its integer argument; getWienerFilter reads the globals.
CallbackBody(name, next) ==
    \E bbox \in {<<imgOrig.cols, imgOrig.rows>>} :
    \E gw \in {getWienerFilter(bbox)} :
        FilterAndDisplay(name, next, bbox, gw)

\* Mutant: the callback reuses the transfer function of the previous call.
CallbackReusingFilter(name, next) ==
    \E bbox \in {<<imgOrig.cols, imgOrig.rows>>} :
    \E gw \in {IF lastCallback = "none" THEN getWienerFilter(bbox)
               ELSE [psf |-> psf, freqPSF |-> freqPSF, cI |-> cI, degrad |-> degrad,
                     imgOut |-> imgFiltered]} :
        FilterAndDisplay(name, next, bbox, gw)

on_snr_trackbar_ReusesFilter(pos, next) == CallbackReusingFilter("on_snr_trackbar", next)

on_radius_trackbar(pos, next) == CallbackBody("on_radius_trackbar", next)

on_snr_trackbar(pos, next) == CallbackBody("on_snr_trackbar", next)

Main39 ==
    /\ pc = "main39"
    /\ on_radius_trackbar(radius_slider, "main40")

Main40 ==
    /\ pc = "main40"
    /\ on_snr_trackbar(snr_slider, "waitKey")

\* A trackbar move (lines 36-37): the library stores the new position in the
\* bound global and then invokes the registered callback with it.
RadiusMove ==
    \E pos \in RadiusPositions :
        /\ pc = "waitKey"
        /\ pos # radius_slider
        /\ radius_slider' = pos
        /\ pc' = "radius_moved"
        /\ UNCHANGED <<imgOrig, snr_slider, psf, freqPSF, cI, degrad, imgFiltered,
                       complexI, imgMod, window, lastCallback, firstCall>>

SnrMove ==
    \E pos \in SnrPositions :
        /\ pc = "waitKey"
        /\ pos # snr_slider
        /\ snr_slider' = pos
        /\ pc' = "snr_moved"
        /\ UNCHANGED <<imgOrig, radius_slider, psf, freqPSF, cI, degrad, imgFiltered,
                       complexI, imgMod, window, lastCallback, firstCall>>

RadiusCallback ==
    /\ pc = "radius_moved"
    /\ on_radius_trackbar(radius_slider, "waitKey")

SnrCallback ==
    /\ pc = "snr_moved"
    /\ on_snr_trackbar(snr_slider, "waitKey")

KeyPress ==
    /\ pc = "waitKey"
    /\ pc' = "exit"
    /\ UNCHANGED <<imgOrig, radius_slider, snr_slider, psf, freqPSF, cI, degrad,
                   imgFiltered, complexI, imgMod, window, lastCallback, firstCall>>

Next ==
    Main39 \/ Main40 \/ RadiusMove \/ SnrMove \/ RadiusCallback \/ SnrCallback \/ KeyPress

Spec == Init /\ [][Next]_vars

(***************************************************************************)
(* getWienerFilter's spatial stages (lines 108-134) run one statement      *)
(* group at a time on any grid size and radius: draw the disk, normalize   *)
(* it, swap the quadrants, merge into the grid handed to cv::dft.          *)
(***************************************************************************)
KernelInit ==
    /\ \E w \in 1 .. MaxDim, h \in 1 .. MaxDim : imgOrig = MatFill(w, h, 0)
    /\ radius_slider \in RadiusPositions
    /\ snr_slider = DefaultSnr
    /\ pc = "gw108"
    /\ psf = EmptyMat
    /\ freqPSF = EmptyMat
    /\ cI = EmptyMat
    /\ degrad = EmptyMat
    /\ imgFiltered = EmptyMat
    /\ complexI = EmptyMat
    /\ imgMod = EmptyMat
    /\ window = EmptyMat
    /\ lastCallback = "none"
    /\ firstCall = NoCall

KernelDraw ==
    /\ pc = "gw108"
    /\ psf' = DrawPSF(<<imgOrig.cols, imgOrig.rows>>, radius_slider)
    /\ pc' = "gw113"
    /\ UNCHANGED <<imgOrig, radius_slider, snr_slider, freqPSF, cI, degrad,
                   imgFiltered, complexI, imgMod, window, lastCallback, firstCall>>

KernelNormalize ==
    /\ pc = "gw113"
    /\ psf' = NormalizePSF(psf)
    /\ pc' = "gw116"
    /\ UNCHANGED <<imgOrig, radius_slider, snr_slider, freqPSF, cI, degrad,
                   imgFiltered, complexI, imgMod, window, lastCallback, firstCall>>

KernelCenter ==
    /\ pc = "gw116"
    /\ freqPSF' = CenterQuadrants(psf)
    /\ pc' = "gw133"
    /\ UNCHANGED <<imgOrig, radius_slider, snr_slider, psf, cI, degrad,
                   imgFiltered, complexI, imgMod, window, lastCallback, firstCall>>

KernelMerge ==
    /\ pc = "gw133"
    /\ cI' = MergePSF(freqPSF)
    /\ pc' = "gw135"
    /\ UNCHANGED <<imgOrig, radius_slider, snr_slider, psf, freqPSF, degrad,
                   imgFiltered, complexI, imgMod, window, lastCallback, firstCall>>

KernelNext == KernelDraw \/ KernelNormalize \/ KernelCenter \/ KernelMerge

SpecKernel == KernelInit /\ [][KernelNext]_vars

(***************************************************************************)
(* Properties.                                                             *)
(***************************************************************************)
\* A callback has returned and no slider has moved since.
Settled == lastCallback # "none" /\ pc \in {"main40", "waitKey", "exit"}

ImgCells == Cells(imgOrig.cols, imgOrig.rows)

Center == <<imgOrig.cols \div 2, imgOrig.rows \div 2>>

InDisk(p) ==
    (p[1] - Center[1]) * (p[1] - Center[1]) + (p[2] - Center[2]) * (p[2] - Center[2])
        <= radius_slider * radius_slider

DiskFits ==
    /\ Center[1] - radius_slider >= 0 /\ Center[1] + radius_slider <= imgOrig.cols - 1
    /\ Center[2] - radius_slider >= 0 /\ Center[2] + radius_slider <= imgOrig.rows - 1

PsfBuilt == pc \in {"gw116", "gw133", "gw135"}

\* C1 (as claimed): with snr_slider = 0 the call fails, so that no transfer
\* function is returned, and no infinite term reaches degrad.  Spec.
C1_SnrZeroRejected ==
    (Settled /\ snr_slider = 0) =>
        /\ imgFiltered = EmptyMat
        /\ \A p \in DOMAIN degrad.at : IsFinite(degrad.at[p])

C4_RadiusZeroPoint ==
    /\ pc = "gw113" => sum(psf) # Zero
    /\ PsfBuilt => \A p \in ImgCells : IsFinite(psf.at[p])
    /\ (PsfBuilt /\ radius_slider = 0) =>
           \A p \in ImgCells : psf.at[p] = IF p = Center THEN One ELSE Zero

C4_Witness ==
    /\ PsfBuilt
    /\ radius_slider = 0
    /\ imgOrig.cols >= 2
    /\ psf.at[Center] = One

\* C5: for snr_slider > 0 every cell of degrad is finite and strictly positive
\* (at least 1/snr), and every cell of the transfer function is H / degrad,
\* finite, with a square of at most snr.  Spec.
C5_FilterBounded ==
    (Settled /\ snr_slider > 0) =>
        \A p \in ImgCells :
            LET H == cI.at[p].re
                W == imgFiltered.at[p]
            IN  /\ IsFinite(degrad.at[p])
                /\ degrad.at[p][1] > 0
                /\ FLe(<<1, snr_slider>>, degrad.at[p])
                /\ IsFinite(W)
                /\ FMul(W, degrad.at[p]) = H
                /\ FLe(FMul(W, W), Rat(snr_slider))

C5_Witness ==
    /\ Settled
    /\ snr_slider > 0
    /\ \E p \in ImgCells : cI.at[p].re = Zero
    /\ \E p \in ImgCells : cI.at[p].re # Zero /\ cI.at[p].re # One

\* C6: the grid handed to the forward transform is the PSF with its quadrants
\* of floor(w/2) x floor(h/2) cells exchanged diagonally; for w, h >= 2 its
\* cell (0,0) is the PSF's center cell (w/2, h/2), and for radius 0 that is
\* its only non-zero cell.  SpecKernel.
C6_CenterAtOrigin ==
    (pc = "gw135" /\ imgOrig.cols >= 2 /\ imgOrig.rows >= 2) =>
        LET cx == imgOrig.cols \div 2
            cy == imgOrig.rows \div 2
        IN  /\ cI.at[<<0, 0>>] = Cx(psf.at[Center], Zero)
            /\ \A p \in ImgCells :
                   cI.at[p] =
                       Cx(IF p[1] < 2 * cx /\ p[2] < 2 * cy
                          THEN psf.at[<<(p[1] + cx) % (2 * cx), (p[2] + cy) % (2 * cy)>>]
                          ELSE psf.at[p],
                          Zero)
            /\ radius_slider = 0 =>
                   \A p \in ImgCells : (cI.at[p].re # Zero) <=> (p = <<0, 0>>)

C6_Witness ==
    /\ pc = "gw135"
    /\ imgOrig.cols = 5
    /\ imgOrig.rows = 4
    /\ radius_slider = 0
    /\ cI.at[<<0, 0>>].re = One

\* C7: on a grid of even width and height the quadrant swap applied a second
\* time restores the grid cell for cell: the swapped PSF swapped again is the
\* PSF, and so is a grid whose cells are all different.  SpecKernel.
C7_SwapTwice ==
    (pc \in {"gw133", "gw135"} /\ imgOrig.cols % 2 = 0 /\ imgOrig.rows % 2 = 0) =>
        /\ CenterQuadrants(freqPSF) = psf
        /\ \E id \in {Mat(imgOrig.cols, imgOrig.rows, [p \in ImgCells |-> p])} :
           \E once \in {CenterQuadrants(id)} :
               CenterQuadrants(once) = id

C7_Witness ==
    /\ pc = "gw133"
    /\ imgOrig.cols = 4
    /\ imgOrig.rows = 2
    /\ radius_slider = 1
    /\ freqPSF # psf

\* C8 (as claimed): both forward transforms are scaled by 1/(w*h), so the
\* inverse transform of the PSF's spectrum gives back the centered PSF.  Spec.
C8_EveryForwardScaled ==
    Settled =>
        /\ RealPlane(idft(complexI)) = ToFloat(imgOrig)
        /\ RealPlane(idft(cI)) = freqPSF

\* C8 (amended): the image's forward transform in filter is scaled by
\* 1/(w*h) and the inverse is unscaled, so the real plane of the inverse of
\* the image's spectrum is the image; the PSF's forward transform is not
\* scaled: its inverse gives w*h times the centered PSF.  Spec.
C8_ImageRoundTrip ==
    Settled =>
        /\ RealPlane(idft(complexI)) = ToFloat(imgOrig)
        /\ \E back \in {RealPlane(idft(cI))} :
               \A p \in ImgCells :
                   back.at[p] = FMul(Rat(imgOrig.cols * imgOrig.rows), freqPSF.at[p])

C8_Witness ==
    /\ Settled
    /\ imgOrig.cols = 4
    /\ imgOrig.rows = 2
    /\ imgOrig.at[<<0, 0>>] # imgOrig.at[<<1, 1>>]
    /\ \E p \in ImgCells : complexI.at[p].im # Zero

\* C9: after every callback the transfer function and the grid filter
\* returned have exactly the image's width and height, cell for cell, and the
\* callback did not end in a size mismatch.  Spec.
C9_DimensionsPreserved ==
    lastCallback # "none" =>
        /\ pc # "terminated"
        /\ SameDims(imgFiltered, imgOrig)
        /\ DOMAIN imgFiltered.at = ImgCells
        /\ SameDims(imgMod, imgOrig)
        /\ DOMAIN imgMod.at = ImgCells

C9_Witness ==
    /\ pc = "waitKey"
    /\ lastCallback = "on_snr_trackbar"
    /\ imgOrig.cols = 4
    /\ imgOrig.rows = 2
    /\ imgMod.cols = 4

\* What a callback leaves in the window, as a function of the image and of
\* the two globals.
Restoration ==
    CHOOSE r \in {displayFiltered(fl.outputImg) :
                     fl \in {filter(imgOrig, gw.imgOut) :
                                gw \in {getWienerFilter(<<imgOrig.cols, imgOrig.rows>>)}}} :
        TRUE

\* C10: whenever a callback has returned, whichever of the two it was, the
\* window holds the restoration of the original image computed from the
\* current values of both global sliders; and no step changes the image.  Spec.
C10_WindowFollowsGlobals ==
    /\ [](Settled => window = Restoration)
    /\ [][imgOrig' = imgOrig]_vars

C10_Witness ==
    /\ pc = "waitKey"
    /\ lastCallback = "on_snr_trackbar"
    /\ radius_slider = 1
    /\ snr_slider = 2
    /\ \E p \in ImgCells : \E q \in ImgCells : window.at[p] # window.at[q]

====
